---- MODULE Spec2Model ----
(***************************************************************************)
(* University Bookstore API (src/main.py, src/models/category.py,          *)
(* src/models/product.py): two in-memory stores, `categories` and          *)
(* `products`, and the request handlers that read and change them.         *)
(*                                                                         *)
(* One action per HTTP route.  An action is the whole request: the body    *)
(* validation FastAPI does before it calls the handler (422), the handler  *)
(* itself, and the response, which is kept in `resp`.  An exception other  *)
(* than HTTPException that leaves a handler is answered with status 500.   *)
(*                                                                         *)
(* A handler is written as the outcome it computes from the current state  *)
(* and its inputs: the two stores, the UUID count and the clock after the  *)
(* request, and the response.  The action of its route applies that        *)
(* outcome.                                                                *)
(*                                                                         *)
(* Spec, SpecClock and SpecList serve the requests one after the other.    *)
(* SpecRace runs two handlers at once on two worker threads, one statement *)
(* at a time, with its own actions, one per statement.                     *)
(***************************************************************************)
EXTENDS Integers, Sequences, FiniteSets, TLC

VARIABLES
    categories,   \* main.py:23  dict UUID -> CategoryRead, in insertion order
    products,     \* main.py:24  dict UUID -> ProductRead, in insertion order
    issued,       \* how many UUIDs uuid4() has handed out so far
    now,          \* the last value datetime.utcnow() returned
    resp,         \* the response to the last request handled
    workers       \* the handler each worker thread is running, and where it is

vars == <<categories, products, issued, now, resp, workers>>

(***************************************************************************)
(* Bounds of the model.                                                    *)
(***************************************************************************)
MaxUUID == 3        \* Spec: how many UUIDs exist; uuid4() stops at this many
MaxTimedUUID == 2   \* SpecClock: the same, while the clock runs
MaxClock == 1       \* SpecClock: the clock stops advancing at this value
MaxListUUID == 3    \* SpecList: how many UUIDs exist
SignificandBits == 2  \* bits in a float's significand (53 in binary64)
MaxRaceUUID == 2    \* SpecRace: how many UUIDs exist

(***************************************************************************)
(* Values.  A JSON / Python value is a record tagged with its type, so     *)
(* that None, a string and a number can stand in the same field.  A string *)
(* is the sequence of its characters.                                      *)
(***************************************************************************)
None == [t |-> "null"]
Str(s) == [t |-> "str", v |-> s]
Num(n) == [t |-> "int", v |-> n]
Dec(n) == [t |-> "decimal", v |-> n]
Bool(b) == [t |-> "bool", v |-> b]
Uuid(u) == [t |-> "uuid", v |-> u]
Time(n) == [t |-> "datetime", v |-> n]
Float(x) == [t |-> "float", v |-> x]

\* A dict with no keys.
EmptyDict == [k \in {} |-> None]

\* dict.update: the keys of `other` overwrite or extend those of `d`.
DictUpdate(d, other) ==
    [k \in DOMAIN d \cup DOMAIN other |-> IF k \in DOMAIN other THEN other[k] ELSE d[k]]

(***************************************************************************)
(* Schemas.  A field is (type, nullable, required, default); a field with  *)
(* a default_factory has factory TRUE and takes its default from the       *)
(* values generated at construction.                                       *)
(***************************************************************************)
Required(type) ==
    [type |-> type, nullable |-> FALSE, required |-> TRUE, factory |-> FALSE, default |-> None]
Optional(type) ==
    [type |-> type, nullable |-> TRUE, required |-> FALSE, factory |-> FALSE, default |-> None]
Defaulted(type, d) ==
    [type |-> type, nullable |-> FALSE, required |-> FALSE, factory |-> FALSE, default |-> d]
Factory(type) ==
    [type |-> type, nullable |-> FALSE, required |-> FALSE, factory |-> TRUE, default |-> None]

CategoryBase ==
    [name |-> Required("str"),
     description |-> Optional("str"),
     is_active |-> Defaulted("bool", Bool(TRUE))]

CategoryCreate == CategoryBase

CategoryUpdate ==
    [name |-> Optional("str"),
     description |-> Optional("str"),
     is_active |-> Optional("bool")]

\* The fields every Read schema adds: id, created_at, updated_at.
ServerFields ==
    [id |-> Factory("uuid"),
     created_at |-> Factory("datetime"),
     updated_at |-> Factory("datetime")]

CategoryRead == DictUpdate(CategoryBase, ServerFields)

ProductBase ==
    [name |-> Required("str"),
     description |-> Optional("str"),
     sku |-> Required("str"),
     price |-> Required("decimal"),
     sale_price |-> Optional("decimal"),
     cost |-> Optional("decimal"),
     stock_quantity |-> Required("int"),
     reorder_level |-> Required("int"),
     category_id |-> Required("uuid"),
     size |-> Optional("str"),
     color |-> Optional("str"),
     material |-> Optional("str"),
     is_active |-> Defaulted("bool", Bool(TRUE))]

ProductCreate == ProductBase

ProductUpdate ==
    [name |-> Optional("str"),
     description |-> Optional("str"),
     sku |-> Optional("str"),
     price |-> Optional("decimal"),
     sale_price |-> Optional("decimal"),
     cost |-> Optional("decimal"),
     stock_quantity |-> Optional("int"),
     reorder_level |-> Optional("int"),
     category_id |-> Optional("uuid"),
     size |-> Optional("str"),
     color |-> Optional("str"),
     material |-> Optional("str"),
     is_active |-> Optional("bool")]

ProductRead == DictUpdate(ProductBase, ServerFields)

(***************************************************************************)
(* Validation (pydantic).  A value is accepted by a field when it has the  *)
(* field's type, or is None and the field is Optional; an int is accepted  *)
(* for a Decimal field and becomes a Decimal.  Keys that are no field of   *)
(* the schema are ignored (pydantic's default, extra = "ignore").          *)
(***************************************************************************)
Accepts(field, value) ==
    \/ value.t = field.type
    \/ value.t = "null" /\ field.nullable
    \/ value.t = "int" /\ field.type = "decimal"

Coerce(field, value) ==
    IF value.t = "int" /\ field.type = "decimal" THEN Dec(value.v) ELSE value

\* Whether schema(**data) succeeds; when it does not, pydantic raises
\* ValidationError.
Valid(schema, data) ==
    \A f \in DOMAIN schema :
        IF f \in DOMAIN data THEN Accepts(schema[f], data[f])
        ELSE ~schema[f].required

\* The fields of the model schema(**data) that take their value from `data`.
FieldsSet(schema, data) == DOMAIN schema \cap DOMAIN data

\* The model schema(**data): its fields, and which of them the caller set.
\* `generated` holds the values the default factories return.
Model(schema, data, generated) ==
    [fields |->
        [f \in DOMAIN schema |->
            IF f \in FieldsSet(schema, data) THEN Coerce(schema[f], data[f])
            ELSE IF schema[f].factory THEN generated[f]
            ELSE schema[f].default],
     fields_set |-> FieldsSet(schema, data)]

\* model.model_dump()
model_dump(model) == model.fields

\* model.model_dump(exclude_unset=True): only the fields the caller set.
model_dump_exclude_unset(model) == [f \in model.fields_set |-> model.fields[f]]

(***************************************************************************)
(* The stores.  A Python dict keeps insertion order: a store is the        *)
(* sequence of its (key, value) items.                                     *)
(***************************************************************************)
Keys(store) == {store[i].key : i \in 1 .. Len(store)}

Values(store) == [i \in 1 .. Len(store) |-> store[i].val]

\* store[k], for k in store.
Item(store, k) == store[CHOOSE i \in 1 .. Len(store) : store[i].key = k].val

\* store[k] = v: a key already there keeps its place, a new key goes last.
SetItem(store, k, v) ==
    IF k \in Keys(store)
    THEN [i \in 1 .. Len(store) |-> IF store[i].key = k THEN [key |-> k, val |-> v] ELSE store[i]]
    ELSE Append(store, [key |-> k, val |-> v])

\* del store[k]
DelItem(store, k) == SelectSeq(store, LAMBDA item : item.key # k)

(***************************************************************************)
(* The clock and the UUID generator.                                       *)
(***************************************************************************)
\* What datetime.utcnow() may return when the last value read was `last` and
\* the clock stops at `clockMax`: the clock never goes backwards.
utcnow(last, clockMax) == {last} \cup (last .. clockMax)

\* Mutant: default=uuid4() in place of default_factory=uuid4, one UUID made
\* when the class is defined and given to every entity.
uuid4_once == issued + 1 - issued

\* uuid4(): a UUID never generated before.  Fresh UUIDs are named in the order
\* they are generated.
uuid4 == issued + 1

(***************************************************************************)
(* Outcomes and responses.                                                 *)
(***************************************************************************)
Response(op, status, detail, body) ==
    [op |-> op, status |-> status, detail |-> detail, body |-> body]

Outcome(categories_, products_, issued_, now_, resp_) ==
    [categories |-> categories_, products |-> products_, issued |-> issued_,
     now |-> now_, resp |-> resp_]

\* raise HTTPException(status_code, detail): the request ends, nothing else
\* changes.
HTTPException(op, status_code, detail) ==
    Outcome(categories, products, issued, now, Response(op, status_code, detail, None))

\* The body fails the route's schema: FastAPI answers 422 and never calls the
\* handler.
RequestValidationError(op) == HTTPException(op, 422, <<"validation error">>)

\* pydantic's ValidationError raised inside a handler: nothing catches it and
\* the server answers 500.  `t` is the clock value the handler read before.
UnhandledValidationError(op, t) ==
    Outcome(categories, products, issued, t,
            Response(op, 500, <<"Internal Server Error">>, None))

(***************************************************************************)
(* Category endpoints.  `category` and `update` are the models FastAPI     *)
(* built from the request body.                                            *)
(***************************************************************************)
\* Mutant: the assignment goes to created_at.
set_created_at(current, t) == [current EXCEPT !.created_at = Time(t)]

\* current["updated_at"] = datetime.utcnow(), the clock reading being t.
set_updated_at(current, t) == [current EXCEPT !.updated_at = Time(t)]

\* POST /categories.  id, created_at and updated_at come from the default
\* factories of CategoryRead, called in this order.
create_category(category, id, created_at, updated_at) ==
    LET category_read ==
            Model(CategoryRead, model_dump(category),
                  [id |-> Uuid(id), created_at |-> Time(created_at),
                   updated_at |-> Time(updated_at)]).fields
    IN  Outcome(SetItem(categories, category_read.id.v, category_read), products,
                issued + 1, updated_at,
                Response("create_category", 201, <<>>, category_read))

\* GET /categories/{category_id}
get_category(category_id) ==
    IF category_id \notin Keys(categories)
    THEN HTTPException("get_category", 404, <<"Category not found">>)
    ELSE Outcome(categories, products, issued, now,
                 Response("get_category", 200, <<>>, Item(categories, category_id)))

\* PUT /categories/{category_id}
update_category(category_id, update, t) ==
    IF category_id \notin Keys(categories)
    THEN HTTPException("update_category", 404, <<"Category not found">>)
    ELSE LET update_data == model_dump_exclude_unset(update)
             current == set_updated_at(DictUpdate(Item(categories, category_id), update_data), t)
         IN  IF ~Valid(CategoryRead, current)
             THEN UnhandledValidationError("update_category", t)
             ELSE LET updated_category == Model(CategoryRead, current, EmptyDict).fields
                  IN  Outcome(SetItem(categories, category_id, updated_category), products,
                              issued, t,
                              Response("update_category", 200, <<>>, updated_category))

\* Mutant: the comparison reads the product's own id.
products_using_category_by_id(category_id) ==
    SelectSeq(Values(products), LAMBDA p : p.id = Uuid(category_id))

\* Mutant: the search stops at the first product found.
products_using_category_first(category_id) ==
    LET using == SelectSeq(Values(products), LAMBDA p : p.category_id = Uuid(category_id))
    IN  IF using = <<>> THEN <<>> ELSE <<Head(using)>>

\* Mutant: every product counts, whatever its category.
products_using_category_all(category_id) == Values(products)

\* The products whose category_id is category_id.
products_using_category(category_id) ==
    SelectSeq(Values(products), LAMBDA p : p.category_id = Uuid(category_id))

\* DELETE /categories/{category_id}
delete_category(category_id) ==
    IF category_id \notin Keys(categories)
    THEN HTTPException("delete_category", 404, <<"Category not found">>)
    ELSE IF products_using_category(category_id) # <<>>
    THEN HTTPException("delete_category", 400,
                       <<"Cannot delete category.", Len(products_using_category(category_id)),
                         "products are using this category.">>)
    ELSE Outcome(DelItem(categories, category_id), products, issued, now,
                 Response("delete_category", 204, <<>>, None))

(***************************************************************************)
(* Product endpoints.                                                      *)
(***************************************************************************)
\* Mutant: the reference is never checked.
category_not_found_never(category_id) == FALSE

\* "category_id not in categories": the check of a product's reference.
category_not_found(category_id) == category_id \notin Keys(categories)

\* POST /products
create_product(product, id, created_at, updated_at) ==
    IF category_not_found(product.fields.category_id.v)
    THEN HTTPException("create_product", 400, <<"Category not found">>)
    ELSE LET product_read ==
                 Model(ProductRead, model_dump(product),
                       [id |-> Uuid(id), created_at |-> Time(created_at),
                        updated_at |-> Time(updated_at)]).fields
         IN  Outcome(categories, SetItem(products, product_read.id.v, product_read),
                     issued + 1, updated_at,
                     Response("create_product", 201, <<>>, product_read))

\* GET /products/{product_id}
get_product(product_id) ==
    IF product_id \notin Keys(products)
    THEN HTTPException("get_product", 404, <<"Product not found">>)
    ELSE Outcome(categories, products, issued, now,
                 Response("get_product", 200, <<>>, Item(products, product_id)))

\* Mutant: the category is checked before the product is looked up.
update_product_category_first(product_id, update, t) ==
    IF /\ update.fields.category_id # None
       /\ category_not_found(update.fields.category_id.v)
    THEN HTTPException("update_product", 400, <<"Category not found">>)
    ELSE IF product_id \notin Keys(products)
    THEN HTTPException("update_product", 404, <<"Product not found">>)
    ELSE LET update_data == model_dump_exclude_unset(update)
             current == set_updated_at(DictUpdate(Item(products, product_id), update_data), t)
         IN  IF ~Valid(ProductRead, current)
             THEN UnhandledValidationError("update_product", t)
             ELSE LET updated_product == Model(ProductRead, current, EmptyDict).fields
                  IN  Outcome(categories, SetItem(products, product_id, updated_product),
                              issued, t,
                              Response("update_product", 200, <<>>, updated_product))

\* PUT /products/{product_id}
update_product(product_id, update, t) ==
    IF product_id \notin Keys(products)
    THEN HTTPException("update_product", 404, <<"Product not found">>)
    ELSE IF /\ update.fields.category_id # None
            /\ category_not_found(update.fields.category_id.v)
    THEN HTTPException("update_product", 400, <<"Category not found">>)
    ELSE LET update_data == model_dump_exclude_unset(update)
             current == set_updated_at(DictUpdate(Item(products, product_id), update_data), t)
         IN  IF ~Valid(ProductRead, current)
             THEN UnhandledValidationError("update_product", t)
             ELSE LET updated_product == Model(ProductRead, current, EmptyDict).fields
                  IN  Outcome(categories, SetItem(products, product_id, updated_product),
                              issued, t,
                              Response("update_product", 200, <<>>, updated_product))

\* DELETE /products/{product_id}
delete_product(product_id) ==
    IF product_id \notin Keys(products)
    THEN HTTPException("delete_product", 404, <<"Product not found">>)
    ELSE Outcome(categories, DelItem(products, product_id), issued, now,
                 Response("delete_product", 204, <<>>, None))

(***************************************************************************)
(* Strings and floats, as the list filters use them.                       *)
(***************************************************************************)
Capitals == <<"A", "B", "S">>
Smalls == <<"a", "b", "s">>

\* str.lower(), character by character.
lower(s) ==
    [i \in 1 .. Len(s) |->
        IF \E k \in 1 .. Len(Capitals) : Capitals[k] = s[i]
        THEN Smalls[CHOOSE k \in 1 .. Len(Capitals) : Capitals[k] = s[i]]
        ELSE s[i]]

\* str.upper(), character by character.
upper(s) ==
    [i \in 1 .. Len(s) |->
        IF \E k \in 1 .. Len(Smalls) : Smalls[k] = s[i]
        THEN Capitals[CHOOSE k \in 1 .. Len(Smalls) : Smalls[k] = s[i]]
        ELSE s[i]]

\* "sub in s" for two strings: sub occurs in s as a contiguous run.
in_str(sub, s) ==
    \E i \in 0 .. Len(s) - Len(sub) : SubSeq(s, i + 1, i + Len(sub)) = sub

RECURSIVE Pow2(_)
Pow2(n) == IF n = 0 THEN 1 ELSE 2 * Pow2(n - 1)

\* The distance between neighbouring floats at the magnitude of n >= 1: 1
\* while n fits in the significand, a power of two beyond it.
ulp(n) ==
    LET e == CHOOSE k \in 0 .. 30 : Pow2(k) <= n /\ n \div 2 < Pow2(k)
    IN  IF e < SignificandBits THEN 1 ELSE Pow2(e - SignificandBits + 1)

\* float(x) for a Decimal or a numeral x with no fraction: the nearest float,
\* the one with the even significand when two are equally near.
float(x) ==
    LET n == IF x < 0 THEN -x ELSE x
        u == ulp(n)
        q == n \div u
        r == n % u
        m == IF 2 * r < u THEN q
             ELSE IF 2 * r > u THEN q + 1
             ELSE IF q % 2 = 0 THEN q ELSE q + 1
    IN  IF x = 0 THEN 0 ELSE IF x < 0 THEN -(m * u) ELSE m * u

(***************************************************************************)
(* The list endpoints.  A parameter the query does not supply is None.     *)
(***************************************************************************)
\* GET /categories
list_categories(name, is_active) ==
    LET all == Values(categories)
        by_name ==
            IF name # None
            THEN SelectSeq(all, LAMBDA c : in_str(lower(name.v), lower(c.name.v)))
            ELSE all
        results ==
            IF is_active # None
            THEN SelectSeq(by_name, LAMBDA c : c.is_active = is_active)
            ELSE by_name
    IN  Outcome(categories, products, issued, now,
                Response("list_categories", 200, <<>>, results))

\* GET /products
list_products(name, sku, category_id, is_active, min_price, max_price, low_stock) ==
    LET all == Values(products)
        by_name ==
            IF name # None
            THEN SelectSeq(all, LAMBDA p : in_str(lower(name.v), lower(p.name.v)))
            ELSE all
        by_sku ==
            IF sku # None
            THEN SelectSeq(by_name, LAMBDA p : in_str(upper(sku.v), upper(p.sku.v)))
            ELSE by_name
        by_category ==
            IF category_id # None
            THEN SelectSeq(by_sku, LAMBDA p : p.category_id = category_id)
            ELSE by_sku
        by_active ==
            IF is_active # None
            THEN SelectSeq(by_category, LAMBDA p : p.is_active = is_active)
            ELSE by_category
        by_min ==
            IF min_price # None
            THEN SelectSeq(by_active, LAMBDA p : float(p.price.v) >= min_price.v)
            ELSE by_active
        by_max ==
            IF max_price # None
            THEN SelectSeq(by_min, LAMBDA p : float(p.price.v) <= max_price.v)
            ELSE by_min
        results ==
            IF low_stock # None /\ low_stock.v
            THEN SelectSeq(by_max, LAMBDA p : p.stock_quantity.v <= p.reorder_level.v)
            ELSE by_max
    IN  Outcome(categories, products, issued, now,
                Response("list_products", 200, <<>>, results))

(***************************************************************************)
(* The routes: FastAPI validates the body against the route's schema,      *)
(* answers 422 when it fails, and calls the handler with the model         *)
(* otherwise.  A path parameter is always a UUID here.                     *)
(***************************************************************************)
POST_categories(body, id, created_at, updated_at) ==
    IF ~Valid(CategoryCreate, body)
    THEN RequestValidationError("create_category")
    ELSE create_category(Model(CategoryCreate, body, EmptyDict), id, created_at, updated_at)

PUT_categories(category_id, body, t) ==
    IF ~Valid(CategoryUpdate, body)
    THEN RequestValidationError("update_category")
    ELSE update_category(category_id, Model(CategoryUpdate, body, EmptyDict), t)

POST_products(body, id, created_at, updated_at) ==
    IF ~Valid(ProductCreate, body)
    THEN RequestValidationError("create_product")
    ELSE create_product(Model(ProductCreate, body, EmptyDict), id, created_at, updated_at)

PUT_products(product_id, body, t) ==
    IF ~Valid(ProductUpdate, body)
    THEN RequestValidationError("update_product")
    ELSE update_product(product_id, Model(ProductUpdate, body, EmptyDict), t)

\* The query parameters of the list routes and their types.
CategoryQuery == [name |-> "str", is_active |-> "bool"]

ProductQuery ==
    [name |-> "str", sku |-> "str", category_id |-> "uuid", is_active |-> "bool",
     min_price |-> "float", max_price |-> "float", low_stock |-> "bool"]

\* Whether FastAPI accepts the query: each parameter supplied parses as its
\* type; a number parses as a float.  Unknown parameters are ignored.
ValidQuery(schema, query) ==
    \A f \in DOMAIN schema \cap DOMAIN query :
        \/ query[f].t = schema[f]
        \/ schema[f] = "float" /\ query[f].t \in {"int", "decimal"}

\* The argument the handler receives for parameter f: None when the query
\* does not supply it (Query(None)), the parsed value otherwise.
Param(schema, query, f) ==
    IF f \notin DOMAIN query THEN None
    ELSE IF schema[f] = "float" THEN Float(float(query[f].v))
    ELSE query[f]

GET_categories(query) ==
    IF ~ValidQuery(CategoryQuery, query)
    THEN RequestValidationError("list_categories")
    ELSE list_categories(Param(CategoryQuery, query, "name"),
                         Param(CategoryQuery, query, "is_active"))

GET_products(query) ==
    IF ~ValidQuery(ProductQuery, query)
    THEN RequestValidationError("list_products")
    ELSE list_products(Param(ProductQuery, query, "name"),
                       Param(ProductQuery, query, "sku"),
                       Param(ProductQuery, query, "category_id"),
                       Param(ProductQuery, query, "is_active"),
                       Param(ProductQuery, query, "min_price"),
                       Param(ProductQuery, query, "max_price"),
                       Param(ProductQuery, query, "low_stock"))

(***************************************************************************)
(* The requests the clients send while the system runs.                    *)
(***************************************************************************)
UUIDs(maxUUID) == 1 .. maxUUID

CategoryCreateBodies ==
    { [name |-> Str(<<"A">>)],
      [name |-> Str(<<>>), description |-> Str(<<"d">>), is_active |-> Bool(FALSE),
       id |-> Uuid(1)],
      [description |-> Str(<<"d">>)] }

CategoryUpdateBodies ==
    { EmptyDict,
      [name |-> Str(<<>>), description |-> Str(<<"d">>), is_active |-> Bool(FALSE)],
      [name |-> None],
      [name |-> Num(5)] }

ProductCreateBodies(maxUUID) ==
    { [name |-> Str(<<"A">>), description |-> Str(<<"d">>), sku |-> Str(<<"s">>),
       price |-> Num(1), stock_quantity |-> Num(1), reorder_level |-> Num(2),
       category_id |-> Uuid(u)] : u \in UUIDs(maxUUID) }
    \cup { [name |-> Str(<<"A">>), sku |-> Str(<<"s">>), price |-> Num(1),
            stock_quantity |-> Num(1), reorder_level |-> Num(2)] }

ProductUpdateBodies(maxUUID) ==
    { EmptyDict,
      [category_id |-> None],
      [sku |-> Num(5)] }
    \cup { [category_id |-> Uuid(u)] : u \in UUIDs(maxUUID) }

(***************************************************************************)
(* The state machine: one action per route.  maxUUID bounds the UUIDs      *)
(* that exist, clockMax the clock.                                         *)
(***************************************************************************)
\* The threads that run the handlers of concurrent requests.
Workers == {"w1", "w2"}

\* A worker with no request: `pc` is the statement its handler is at, `request`
\* the handler's arguments, `local` its local variable, `overlapped` whether a
\* statement of another handler has run since this handler began.
Idle == [pc |-> "idle", request |-> None, local |-> None, overlapped |-> FALSE]

Init ==
    /\ categories = <<>>
    /\ products = <<>>
    /\ issued = 0
    /\ now = 0
    /\ resp = Response("none", 0, <<>>, None)
    /\ workers = [w \in Workers |-> Idle]

Apply(outcome) ==
    /\ categories' = outcome.categories
    /\ products' = outcome.products
    /\ issued' = outcome.issued
    /\ now' = outcome.now
    /\ resp' = outcome.resp
    /\ UNCHANGED workers

CreateCategory(maxUUID, clockMax) ==
    \E body \in CategoryCreateBodies :
        \E created_at \in utcnow(now, clockMax) :
            \E updated_at \in utcnow(created_at, clockMax) :
                /\ issued < maxUUID
                /\ Apply(POST_categories(body, uuid4, created_at, updated_at))

GetCategory(maxUUID) ==
    \E category_id \in UUIDs(maxUUID) :
        \E outcome \in {get_category(category_id)} : Apply(outcome)

UpdateCategory(maxUUID, clockMax) ==
    \E category_id \in UUIDs(maxUUID), body \in CategoryUpdateBodies :
        \E t \in utcnow(now, clockMax) : Apply(PUT_categories(category_id, body, t))

DeleteCategory(maxUUID) ==
    \E category_id \in UUIDs(maxUUID) :
        \E outcome \in {delete_category(category_id)} : Apply(outcome)

CreateProduct(maxUUID, clockMax) ==
    \E body \in ProductCreateBodies(maxUUID) :
        \E created_at \in utcnow(now, clockMax) :
            \E updated_at \in utcnow(created_at, clockMax) :
                /\ issued < maxUUID
                /\ Apply(POST_products(body, uuid4, created_at, updated_at))

GetProduct(maxUUID) ==
    \E product_id \in UUIDs(maxUUID) :
        \E outcome \in {get_product(product_id)} : Apply(outcome)

UpdateProduct(maxUUID, clockMax) ==
    \E product_id \in UUIDs(maxUUID), body \in ProductUpdateBodies(maxUUID) :
        \E t \in utcnow(now, clockMax) : Apply(PUT_products(product_id, body, t))

DeleteProduct(maxUUID) ==
    \E product_id \in UUIDs(maxUUID) :
        \E outcome \in {delete_product(product_id)} : Apply(outcome)

Requests(maxUUID, clockMax) ==
    \/ CreateCategory(maxUUID, clockMax)
    \/ GetCategory(maxUUID)
    \/ UpdateCategory(maxUUID, clockMax)
    \/ DeleteCategory(maxUUID)
    \/ CreateProduct(maxUUID, clockMax)
    \/ GetProduct(maxUUID)
    \/ UpdateProduct(maxUUID, clockMax)
    \/ DeleteProduct(maxUUID)

\* All requests are served at one reading of the clock.
Next == Requests(MaxUUID, 0)

Spec == Init /\ [][Next]_vars

\* The clock advances between and during requests.
NextClock == Requests(MaxTimedUUID, MaxClock)

SpecClock == Init /\ [][NextClock]_vars

(***************************************************************************)
(* The list requests, and products whose fields tell the filters apart.    *)
(***************************************************************************)
CatalogueProductBodies(maxUUID) ==
    { [name |-> Str(<<"A", "b">>), sku |-> Str(<<"S">>), price |-> Num(5),
       stock_quantity |-> Num(1), reorder_level |-> Num(2),
       category_id |-> Uuid(u)] : u \in UUIDs(maxUUID) }
    \cup { [name |-> Str(<<"b">>), sku |-> Str(<<"a">>), price |-> Num(4),
            stock_quantity |-> Num(3), reorder_level |-> Num(2),
            category_id |-> Uuid(u), is_active |-> Bool(FALSE)] : u \in UUIDs(maxUUID) }

CategoryQueries ==
    { EmptyDict,
      [name |-> Str(<<"a">>)],
      [is_active |-> Bool(FALSE)],
      [is_active |-> Str(<<"x">>)] }

ProductQueries ==
    { EmptyDict,
      [name |-> Str(<<"a">>)],
      [max_price |-> Num(4)],
      [low_stock |-> Bool(TRUE)],
      [category_id |-> Str(<<"x">>)] }

CreateCatalogueProduct(maxUUID) ==
    \E body \in CatalogueProductBodies(maxUUID) :
        /\ issued < maxUUID
        /\ Apply(POST_products(body, uuid4, now, now))

ListCategories ==
    \E query \in CategoryQueries :
        \E outcome \in {GET_categories(query)} : Apply(outcome)

ListProducts ==
    \E query \in ProductQueries :
        \E outcome \in {GET_products(query)} : Apply(outcome)

\* All requests, the list requests among them, at one reading of the clock.
NextList ==
    \/ Requests(MaxListUUID, 0)
    \/ CreateCatalogueProduct(MaxListUUID)
    \/ ListCategories
    \/ ListProducts

SpecList == Init /\ [][NextList]_vars

(***************************************************************************)
(* Concurrent requests.  FastAPI runs a handler declared with `def` on a   *)
(* thread of its pool, and nothing locks the stores: two handlers run      *)
(* interleaved, statement by statement.  Each worker is such a thread; a   *)
(* step is one statement that reads or writes a store or draws a UUID,     *)
(* together with the statements after it that touch only the handler's own *)
(* variables.  The clock stands still.  The actions are named after the    *)
(* handler and the line of the statement.                                  *)
(***************************************************************************)
InFlight(w) == workers[w].pc # "idle"

\* Worker w goes on to statement pc; the handlers in flight on the other
\* workers have now been overlapped.
Goto(w, pc, request, local) ==
    workers' =
        [x \in Workers |->
            IF x = w
            THEN [pc |-> pc, request |-> request, local |-> local,
                  overlapped |-> workers[w].overlapped]
            ELSE [workers[x] EXCEPT !.overlapped = InFlight(x)]]

\* The handler on worker w returns or raises: its request is answered.
Return(w, response) ==
    /\ workers' =
           [x \in Workers |->
               IF x = w THEN Idle ELSE [workers[x] EXCEPT !.overlapped = InFlight(x)]]
    /\ resp' = response

\* KeyError raised by store[k] or del store[k]: nothing catches it and the
\* server answers 500.
KeyError(op) == Response(op, 500, <<"Internal Server Error">>, None)

\* The UUIDs the handlers in flight are still to draw.
PendingUUIDs == Cardinality({w \in Workers : workers[w].pc = "create_product_141"})

RaceCategoryBodies == { [name |-> Str(<<"A">>)] }

RaceProductBodies(maxUUID) ==
    { [name |-> Str(<<"A">>), sku |-> Str(<<"s">>), price |-> Num(1),
       stock_quantity |-> Num(1), reorder_level |-> Num(2),
       category_id |-> Uuid(u)] : u \in UUIDs(maxUUID) }

RaceUpdateBodies(maxUUID) ==
    {EmptyDict} \cup { [category_id |-> Uuid(u)] : u \in UUIDs(maxUUID) }

\* POST /categories
create_category_65(w) ==
    /\ ~InFlight(w)
    /\ issued + PendingUUIDs < MaxRaceUUID
    /\ \E body \in RaceCategoryBodies :
           LET category == Model(CategoryCreate, body, EmptyDict)
               category_read ==
                   Model(CategoryRead, model_dump(category),
                         [id |-> Uuid(uuid4), created_at |-> Time(now),
                          updated_at |-> Time(now)]).fields
           IN  Goto(w, "create_category_66", category, category_read)
    /\ issued' = issued + 1
    /\ UNCHANGED <<categories, products, now, resp>>

create_category_66(w) ==
    /\ workers[w].pc = "create_category_66"
    /\ LET category_read == workers[w].local
       IN  /\ categories' = SetItem(categories, category_read.id.v, category_read)
           /\ Return(w, Response("create_category", 201, <<>>, category_read))
    /\ UNCHANGED <<products, issued, now>>

\* Mutant: the products are never looked at.
delete_category_120_unchecked(w) ==
    /\ workers[w].pc = "delete_category_120"
    /\ Goto(w, "delete_category_127", workers[w].request, <<>>)
    /\ UNCHANGED <<categories, products, issued, now, resp>>

\* DELETE /categories/{category_id}
delete_category_116(w) ==
    /\ ~InFlight(w)
    /\ \E category_id \in UUIDs(MaxRaceUUID) :
           IF category_id \notin Keys(categories)
           THEN Return(w, Response("delete_category", 404, <<"Category not found">>, None))
           ELSE Goto(w, "delete_category_120", Uuid(category_id), None) /\ resp' = resp
    /\ UNCHANGED <<categories, products, issued, now>>

delete_category_120(w) ==
    /\ workers[w].pc = "delete_category_120"
    /\ LET using == products_using_category(workers[w].request.v)
       IN  IF using # <<>>
           THEN Return(w, Response("delete_category", 400,
                                   <<"Cannot delete category.", Len(using),
                                     "products are using this category.">>, None))
           ELSE Goto(w, "delete_category_127", workers[w].request, using) /\ resp' = resp
    /\ UNCHANGED <<categories, products, issued, now>>

delete_category_127(w) ==
    /\ workers[w].pc = "delete_category_127"
    /\ LET category_id == workers[w].request.v
       IN  IF category_id \notin Keys(categories)
           THEN Return(w, KeyError("delete_category")) /\ categories' = categories
           ELSE /\ categories' = DelItem(categories, category_id)
                /\ Return(w, Response("delete_category", 204, <<>>, None))
    /\ UNCHANGED <<products, issued, now>>

\* POST /products
create_product_138(w) ==
    /\ ~InFlight(w)
    /\ issued + PendingUUIDs < MaxRaceUUID
    /\ \E body \in RaceProductBodies(MaxRaceUUID) :
           LET product == Model(ProductCreate, body, EmptyDict)
           IN  IF category_not_found(product.fields.category_id.v)
               THEN Return(w, Response("create_product", 400, <<"Category not found">>, None))
               ELSE Goto(w, "create_product_141", product, None) /\ resp' = resp
    /\ UNCHANGED <<categories, products, issued, now>>

create_product_141(w) ==
    /\ workers[w].pc = "create_product_141"
    /\ LET product_read ==
               Model(ProductRead, model_dump(workers[w].request),
                     [id |-> Uuid(uuid4), created_at |-> Time(now),
                      updated_at |-> Time(now)]).fields
       IN  Goto(w, "create_product_142", workers[w].request, product_read)
    /\ issued' = issued + 1
    /\ UNCHANGED <<categories, products, now, resp>>

create_product_142(w) ==
    /\ workers[w].pc = "create_product_142"
    /\ LET product_read == workers[w].local
       IN  /\ products' = SetItem(products, product_read.id.v, product_read)
           /\ Return(w, Response("create_product", 201, <<>>, product_read))
    /\ UNCHANGED <<categories, issued, now>>

\* PUT /products/{product_id}
update_product_185(w) ==
    /\ ~InFlight(w)
    /\ \E product_id \in UUIDs(MaxRaceUUID), body \in RaceUpdateBodies(MaxRaceUUID) :
           IF product_id \notin Keys(products)
           THEN Return(w, Response("update_product", 404, <<"Product not found">>, None))
           ELSE /\ Goto(w, "update_product_189",
                        [product_id |-> product_id,
                         update |-> Model(ProductUpdate, body, EmptyDict)], None)
                /\ resp' = resp
    /\ UNCHANGED <<categories, products, issued, now>>

update_product_189(w) ==
    /\ workers[w].pc = "update_product_189"
    /\ LET update == workers[w].request.update
       IN  IF /\ update.fields.category_id # None
              /\ category_not_found(update.fields.category_id.v)
           THEN Return(w, Response("update_product", 400, <<"Category not found">>, None))
           ELSE Goto(w, "update_product_193", workers[w].request, None) /\ resp' = resp
    /\ UNCHANGED <<categories, products, issued, now>>

update_product_193(w) ==
    /\ workers[w].pc = "update_product_193"
    /\ LET product_id == workers[w].request.product_id
           update_data == model_dump_exclude_unset(workers[w].request.update)
       IN  IF product_id \notin Keys(products)
           THEN Return(w, KeyError("update_product"))
           ELSE LET current ==
                        set_updated_at(DictUpdate(Item(products, product_id), update_data),
                                       now)
                IN  IF ~Valid(ProductRead, current)
                    THEN Return(w, Response("update_product", 500,
                                            <<"Internal Server Error">>, None))
                    ELSE /\ Goto(w, "update_product_204", workers[w].request,
                                 Model(ProductRead, current, EmptyDict).fields)
                         /\ resp' = resp
    /\ UNCHANGED <<categories, products, issued, now>>

update_product_204(w) ==
    /\ workers[w].pc = "update_product_204"
    /\ LET updated_product == workers[w].local
       IN  /\ products' = SetItem(products, workers[w].request.product_id, updated_product)
           /\ Return(w, Response("update_product", 200, <<>>, updated_product))
    /\ UNCHANGED <<categories, issued, now>>

\* DELETE /products/{product_id}
delete_product_211(w) ==
    /\ ~InFlight(w)
    /\ \E product_id \in UUIDs(MaxRaceUUID) :
           IF product_id \notin Keys(products)
           THEN Return(w, Response("delete_product", 404, <<"Product not found">>, None))
           ELSE Goto(w, "delete_product_214", Uuid(product_id), None) /\ resp' = resp
    /\ UNCHANGED <<categories, products, issued, now>>

delete_product_214(w) ==
    /\ workers[w].pc = "delete_product_214"
    /\ LET product_id == workers[w].request.v
       IN  IF product_id \notin Keys(products)
           THEN Return(w, KeyError("delete_product")) /\ products' = products
           ELSE /\ products' = DelItem(products, product_id)
                /\ Return(w, Response("delete_product", 204, <<>>, None))
    /\ UNCHANGED <<categories, issued, now>>

\* One statement of one handler, on any worker.
NextRace ==
    \E w \in Workers :
        \/ create_category_65(w)
        \/ create_category_66(w)
        \/ delete_category_116(w)
        \/ delete_category_120(w)
        \/ delete_category_127(w)
        \/ create_product_138(w)
        \/ create_product_141(w)
        \/ create_product_142(w)
        \/ update_product_185(w)
        \/ update_product_189(w)
        \/ update_product_193(w)
        \/ update_product_204(w)
        \/ delete_product_211(w)
        \/ delete_product_214(w)

SpecRace == Init /\ [][NextRace]_vars

(***************************************************************************)
(* Request bodies the properties range over: a wider set than the one the  *)
(* state machine is driven with.                                           *)
(***************************************************************************)
\* Sample values of a field type, as JSON sends them.
ValuesOf(type, ids) ==
    CASE type = "str" -> {Str(<<>>), Str(<<"B">>)}
      [] type = "decimal" -> {Dec(2), Num(3)}
      [] type = "int" -> {Num(0)}
      [] type = "bool" -> {Bool(FALSE), Bool(TRUE)}
      [] type = "uuid" -> {Uuid(u) : u \in ids}

\* The bodies that set one field of `schema`, to None or to a value of its type.
OneFieldBodies(schema, ids) ==
    UNION { { [g \in {f} |-> v] : v \in {None} \cup ValuesOf(schema[f].type, ids) }
            : f \in DOMAIN schema }

AnyCategoryCreateBodies ==
    CategoryCreateBodies
    \cup { [name |-> Str(<<"B">>), description |-> None, is_active |-> Bool(TRUE)],
           [name |-> None],
           [name |-> Str(<<"B">>), is_active |-> None],
           [name |-> Num(5)] }

AnyCategoryUpdateBodies ==
    CategoryUpdateBodies
    \cup OneFieldBodies(CategoryUpdate, {})
    \cup { [name |-> Str(<<"B">>), description |-> None],
           [description |-> Str(<<"e">>), is_active |-> Bool(TRUE)],
           [name |-> Str(<<"B">>), id |-> Uuid(2), created_at |-> Time(0)],
           [is_active |-> Str(<<"B">>)] }

AnyProductCreateBodies(ids) ==
    ProductCreateBodies(Cardinality(ids))
    \cup { [name |-> Str(<<>>), sku |-> Str(<<"s">>), price |-> Dec(2), sale_price |-> None,
            stock_quantity |-> Num(0), reorder_level |-> Num(0), category_id |-> Uuid(u),
            color |-> Str(<<"B">>), is_active |-> Bool(FALSE), id |-> Uuid(1)] : u \in ids }
    \cup { [name |-> Str(<<"A">>), sku |-> Str(<<"s">>), price |-> None,
            stock_quantity |-> Num(1), reorder_level |-> Num(2), category_id |-> Uuid(u)]
            : u \in ids }

AnyProductUpdateBodies(ids) ==
    ProductUpdateBodies(Cardinality(ids))
    \cup OneFieldBodies(ProductUpdate, ids)
    \cup { [name |-> Str(<<"B">>), description |-> None, price |-> Num(3)],
           [stock_quantity |-> Num(0), id |-> Uuid(2), created_at |-> Time(0)],
           [price |-> Str(<<"B">>)] }
    \cup { [name |-> Str(<<"B">>), category_id |-> Uuid(u)] : u \in ids }

\* Whether an outcome leaves both stores as they are.
StoresUnchanged(outcome) ==
    /\ outcome.categories = categories
    /\ outcome.products = products

\* How many products reference category c.
Referencing(c) ==
    Cardinality({i \in 1 .. Len(products) : products[i].val.category_id = Uuid(c)})

(***************************************************************************)
(* C1.  Referential integrity: in every state reached by handling whole    *)
(* requests one after the other from two empty stores, every product's     *)
(* category_id is the id of a category in the category store.              *)
(***************************************************************************)
C1_ReferentialIntegrity ==
    \A i \in 1 .. Len(products) :
        /\ products[i].val.category_id.t = "uuid"
        /\ products[i].val.category_id.v \in Keys(categories)

\* A category has been deleted while products, among them one moved to another
\* category by an update, are in the store.
C1_Witness ==
    /\ resp.op = "delete_category" /\ resp.status = 204
    /\ \E i \in 1 .. Len(products) : products[i].val.category_id.v > 1

(***************************************************************************)
(* C2.  As claimed: creating a product, or updating a product, with a      *)
(* category_id that is not the id of a stored category always fails with   *)
(* status 400 and leaves both stores as they were.                         *)
(***************************************************************************)
\* The UUIDs, bodies and clock readings the properties range over.
Ids == UUIDs(MaxUUID)
ProductCreates == AnyProductCreateBodies(Ids)
ProductUpdates == AnyProductUpdateBodies(Ids)
Readings == now .. MaxClock
ReadingPairs == {pair \in Readings \X Readings : pair[1] <= pair[2]}

\* The body is accepted by the schema and names a category that is not stored.
DanglingReference(schema, body) ==
    /\ Valid(schema, body)
    /\ "category_id" \in DOMAIN body
    /\ body.category_id.t = "uuid"
    /\ body.category_id.v \notin Keys(categories)

InvalidReference(outcome) ==
    /\ outcome.resp.status = 400
    /\ outcome.resp.detail = <<"Category not found">>
    /\ StoresUnchanged(outcome)

C2_CreateRejected ==
    \A body \in ProductCreates, at \in ReadingPairs :
        DanglingReference(ProductCreate, body)
            => InvalidReference(POST_products(body, uuid4, at[1], at[2]))

\* A step that handles the request POST /products or PUT /products/{id} with
\* such a body ends with status 400 and both stores as they were.
C2_AsClaimed ==
    [][ /\ \A body \in ProductCreates, at \in ReadingPairs :
            ( /\ DanglingReference(ProductCreate, body)
              /\ Apply(POST_products(body, uuid4, at[1], at[2])) )
                => (resp'.status = 400 /\ UNCHANGED <<categories, products>>)
        /\ \A product_id \in Ids, body \in ProductUpdates, t \in Readings :
            ( /\ DanglingReference(ProductUpdate, body)
              /\ Apply(PUT_products(product_id, body, t)) )
                => (resp'.status = 400 /\ UNCHANGED <<categories, products>>) ]_vars

(***************************************************************************)
(* C2, amended.  Creating a product, or updating a product that is in the  *)
(* product store, with a category_id that is not the id of a stored        *)
(* category fails with status 400; updating a product that is not in the   *)
(* store with such a category_id fails with status 404.  Both stores are   *)
(* left as they were.                                                      *)
(***************************************************************************)
C2_InvalidReference ==
    /\ C2_CreateRejected
    /\ \A product_id \in Ids, body \in ProductUpdates, t \in Readings :
            DanglingReference(ProductUpdate, body)
                => LET outcome == PUT_products(product_id, body, t)
                   IN  IF product_id \in Keys(products)
                       THEN InvalidReference(outcome)
                       ELSE /\ outcome.resp.status = 404
                            /\ StoresUnchanged(outcome)

\* An update of a stored product has just been refused for its category_id.
C2_Witness ==
    /\ resp.op = "update_product" /\ resp.status = 400
    /\ products # <<>>

(***************************************************************************)
(* C3.  Deletion guard: DELETE on a stored category that n >= 1 stored     *)
(* products reference fails with status 400, the message gives exactly n   *)
(* as the number of products using the category, and the category and all  *)
(* products stay in their stores unchanged.                                *)
(***************************************************************************)
C3_DeletionGuard ==
    \A category_id \in Keys(categories) :
        Referencing(category_id) >= 1
            => LET outcome == delete_category(category_id)
               IN  /\ outcome.resp.status = 400
                   /\ outcome.resp.detail =
                        <<"Cannot delete category.", Referencing(category_id),
                          "products are using this category.">>
                   /\ StoresUnchanged(outcome)

\* The deletion of a category that two products reference has just been refused.
C3_Witness ==
    /\ resp.op = "delete_category" /\ resp.status = 400
    /\ resp.detail[2] = 2
    /\ \E category_id \in Keys(categories) : Referencing(category_id) = 2

(***************************************************************************)
(* C4.  DELETE on a stored category that no stored product references      *)
(* (every product that referenced it has been deleted, or updated to       *)
(* reference another category) succeeds with status 204 and removes that   *)
(* category, and only it, from the category store.                         *)
(***************************************************************************)
C4_DeletableOnceUnreferenced ==
    \A category_id \in Keys(categories) :
        Referencing(category_id) = 0
            => LET outcome == delete_category(category_id)
               IN  /\ outcome.resp.status = 204
                   /\ category_id \notin Keys(outcome.categories)
                   /\ outcome.categories = DelItem(categories, category_id)
                   /\ outcome.products = products

\* The scenario of the specification: category 1 and product 2 in it have been
\* created, the product has just been deleted, and DELETE on the category, the
\* only entity left, now succeeds.
C4_Witness ==
    /\ issued = 2
    /\ Keys(categories) = {1} /\ products = <<>>
    /\ resp.op = "delete_product" /\ resp.status = 204
    /\ delete_category(1).resp.status = 204
    /\ delete_category(1).categories = <<>>

(***************************************************************************)
(* C5.  As claimed: an Update of a stored category or product with a body  *)
(* the Update schema accepts (and, for a product, no category_id outside   *)
(* the category store) leaves every field absent from the body as stored   *)
(* and overwrites every field present in the body, a field set to null     *)
(* included, with the value supplied.                                      *)
(***************************************************************************)
\* `after` is `before` with the fields of `body` written over it; updated_at
\* is the one field an update changes by itself.
PartialUpdateApplied(schema, body, before, after) ==
    \A f \in DOMAIN before \ {"updated_at"} :
        IF f \in DOMAIN schema \cap DOMAIN body
        THEN after[f] = Coerce(schema[f], body[f])
        ELSE after[f] = before[f]

C5_AsClaimed ==
    [][ /\ \A category_id \in Keys(categories), body \in AnyCategoryUpdateBodies,
              t \in Readings :
            ( /\ Valid(CategoryUpdate, body)
              /\ Apply(PUT_categories(category_id, body, t)) )
                => /\ category_id \in Keys(categories')
                   /\ PartialUpdateApplied(CategoryUpdate, body,
                                           Item(categories, category_id),
                                           Item(categories', category_id))
        /\ \A product_id \in Keys(products), body \in ProductUpdates,
              t \in Readings :
            ( /\ Valid(ProductUpdate, body)
              /\ ~DanglingReference(ProductUpdate, body)
              /\ Apply(PUT_products(product_id, body, t)) )
                => /\ product_id \in Keys(products')
                   /\ PartialUpdateApplied(ProductUpdate, body,
                                           Item(products, product_id),
                                           Item(products', product_id)) ]_vars

(***************************************************************************)
(* C6.  As claimed: every request ends with success (200, 201, 204), 422,  *)
(* 404 or 400; no request the schemas accept ends with a server error.     *)
(***************************************************************************)
C6_AsClaimed ==
    resp.op # "none" => resp.status \in {200, 201, 204, 400, 404, 422}

(***************************************************************************)
(* C9.  As claimed: every stored category and every stored product has a   *)
(* name that is a non-empty string.                                        *)
(***************************************************************************)
NonEmptyName(entity) ==
    /\ entity.name.t = "str"
    /\ Len(entity.name.v) >= 1

C9_AsClaimed ==
    /\ \A i \in 1 .. Len(categories) : NonEmptyName(categories[i].val)
    /\ \A i \in 1 .. Len(products) : NonEmptyName(products[i].val)

(***************************************************************************)
(* C7.  Timestamps, the clock never going backwards.  Checked under        *)
(* SpecClock, where the clock advances.                                    *)
(***************************************************************************)
\* Update bodies, among them bodies that carry timestamps of their own.
TimedCategoryUpdateBodies ==
    CategoryUpdateBodies
    \cup { [description |-> None],
           [name |-> Str(<<"B">>), id |-> Uuid(2), created_at |-> Time(0)],
           [is_active |-> Bool(TRUE), created_at |-> Time(1), updated_at |-> Time(0)] }

TimedProductUpdateBodies ==
    ProductUpdateBodies(MaxTimedUUID)
    \cup { [name |-> Str(<<"B">>), description |-> None, price |-> Num(3)],
           [stock_quantity |-> Num(0), id |-> Uuid(2), created_at |-> Time(0)],
           [is_active |-> Bool(FALSE), created_at |-> Time(1), updated_at |-> Time(0)] }

\* Every stored entity has updated_at >= created_at.
C7_UpdatedNotBeforeCreated ==
    /\ \A i \in 1 .. Len(categories) :
            categories[i].val.updated_at.v >= categories[i].val.created_at.v
    /\ \A i \in 1 .. Len(products) :
            products[i].val.updated_at.v >= products[i].val.created_at.v

\* A successful Update leaves created_at as it is and does not move updated_at
\* backwards.
UpdateKeepsOrder(before, after) ==
    /\ after.created_at = before.created_at
    /\ after.updated_at.v >= before.updated_at.v

C7_UpdateMonotone ==
    /\ \A category_id \in Keys(categories), body \in TimedCategoryUpdateBodies, t \in Readings :
            LET outcome == PUT_categories(category_id, body, t)
            IN  outcome.resp.status = 200
                    => UpdateKeepsOrder(Item(categories, category_id),
                                        Item(outcome.categories, category_id))
    /\ \A product_id \in Keys(products), body \in TimedProductUpdateBodies, t \in Readings :
            LET outcome == PUT_products(product_id, body, t)
            IN  outcome.resp.status = 200
                    => UpdateKeepsOrder(Item(products, product_id),
                                        Item(outcome.products, product_id))

Created == resp.op \in {"create_category", "create_product"} /\ resp.status = 201

\* As claimed: besides the two properties above, a Create gives created_at and
\* updated_at the same value.
C7_AsClaimed ==
    /\ C7_UpdatedNotBeforeCreated
    /\ C7_UpdateMonotone
    /\ Created => resp.body.created_at = resp.body.updated_at

\* Amended: a Create takes created_at and updated_at from two successive
\* readings of the clock, created_at first, so that created_at <= updated_at,
\* and no timestamp in a store is later than the last reading.
C7_Timestamps ==
    /\ C7_UpdatedNotBeforeCreated
    /\ C7_UpdateMonotone
    /\ Created => /\ resp.body.created_at.v <= resp.body.updated_at.v
                  /\ resp.body.updated_at.v = now
    /\ \A i \in 1 .. Len(categories) : categories[i].val.updated_at.v <= now
    /\ \A i \in 1 .. Len(products) : products[i].val.updated_at.v <= now

\* An entity has just been created with the clock advancing between the two
\* readings.
C7_Witness ==
    /\ Created
    /\ resp.body.created_at.v < resp.body.updated_at.v

(***************************************************************************)
(* C8.  Identity: a store holds an entity under the key that is its id, no *)
(* two entities of a store share an id, a Create adds an entry and leaves  *)
(* the entries already there alone, and no Update, whatever its body,      *)
(* changes the id of its target.                                           *)
(***************************************************************************)
KeyedById(store) ==
    /\ \A i \in 1 .. Len(store) :
            store[i].val.id = Uuid(store[i].key)
    /\ \A i, j \in 1 .. Len(store) :
            store[i].val.id = store[j].val.id => i = j

\* `after` is `before` with one entry added at the end.
OneAdded(before, after) ==
    /\ Len(after) = Len(before) + 1
    /\ SubSeq(after, 1, Len(before)) = before

C8_Identity ==
    /\ KeyedById(categories)
    /\ KeyedById(products)
    /\ \A body \in AnyCategoryCreateBodies, at \in ReadingPairs :
            LET outcome == POST_categories(body, uuid4, at[1], at[2])
            IN  outcome.resp.status = 201 => OneAdded(categories, outcome.categories)
    /\ \A body \in ProductCreates, at \in ReadingPairs :
            LET outcome == POST_products(body, uuid4, at[1], at[2])
            IN  outcome.resp.status = 201 => OneAdded(products, outcome.products)
    /\ \A category_id \in Keys(categories), body \in AnyCategoryUpdateBodies, t \in Readings :
            LET outcome == PUT_categories(category_id, body, t)
            IN  /\ Keys(outcome.categories) = Keys(categories)
                /\ Item(outcome.categories, category_id).id = Uuid(category_id)
    /\ \A product_id \in Keys(products), body \in ProductUpdates, t \in Readings :
            LET outcome == PUT_products(product_id, body, t)
            IN  /\ Keys(outcome.products) = Keys(products)
                /\ Item(outcome.products, product_id).id = Uuid(product_id)

\* A second category has just been created next to a first that stays, and a
\* body that names another id would be accepted by an update of the first.
C8_Witness ==
    /\ resp.op = "create_category" /\ resp.status = 201
    /\ Keys(categories) = {1, 2}
    /\ PUT_categories(1, [name |-> Str(<<"B">>), id |-> Uuid(2), created_at |-> Time(0)],
                      now).resp.status = 200

(***************************************************************************)
(* C10.  Get, Update and Delete on an id that is not in the targeted store *)
(* fail with status 404 and leave both stores as they were, for a product  *)
(* Update also when its category_id names no stored category; and once a   *)
(* Delete has succeeded, a Get of the same id fails with status 404.       *)
(***************************************************************************)
NotFound(outcome) ==
    /\ outcome.resp.status = 404
    /\ StoresUnchanged(outcome)

C10_AbsentIsNotFound ==
    /\ \A category_id \in Ids \ Keys(categories) :
            /\ NotFound(get_category(category_id))
            /\ NotFound(delete_category(category_id))
            /\ \A body \in AnyCategoryUpdateBodies, t \in Readings :
                    Valid(CategoryUpdate, body)
                        => NotFound(PUT_categories(category_id, body, t))
    /\ \A product_id \in Ids \ Keys(products) :
            /\ NotFound(get_product(product_id))
            /\ NotFound(delete_product(product_id))
            /\ \A body \in ProductUpdates, t \in Readings :
                    Valid(ProductUpdate, body)
                        => NotFound(PUT_products(product_id, body, t))

C10_GetAfterDelete ==
    /\ \A category_id \in Keys(categories) :
            ( /\ Apply(delete_category(category_id))
              /\ resp'.status = 204 )
                => (get_category(category_id).resp.status = 404)'
    /\ \A product_id \in Keys(products) :
            ( /\ Apply(delete_product(product_id))
              /\ resp'.status = 204 )
                => (get_product(product_id).resp.status = 404)'

C10_NotFound == []C10_AbsentIsNotFound /\ [][C10_GetAfterDelete]_vars

\* Product 2 has been created and deleted, and an update of it has just been
\* answered 404.
C10_Witness ==
    /\ resp.op = "update_product" /\ resp.status = 404
    /\ issued = 2 /\ Keys(categories) = {1} /\ products = <<>>

(***************************************************************************)
(* C11.  Listing products.                                                 *)
(***************************************************************************)
\* The query with parameter f supplied with one of `values`, or not at all.
Supplied(f, values) == {EmptyDict} \cup {[k \in {f} |-> v] : v \in values}

\* The queries the property ranges over: every combination of parameters
\* supplied and absent.
AnyProductQueries ==
    { DictUpdate(name, DictUpdate(sku, DictUpdate(category_id, DictUpdate(is_active,
          DictUpdate(min_price, DictUpdate(max_price, low_stock)))))) :
        name \in Supplied("name", {Str(<<"a">>), Str(<<"B">>)}),
        sku \in Supplied("sku", {Str(<<"s">>)}),
        category_id \in Supplied("category_id", {Uuid(u) : u \in UUIDs(MaxListUUID)}),
        is_active \in Supplied("is_active", {Bool(TRUE), Bool(FALSE)}),
        min_price \in Supplied("min_price", {Num(4), Num(5)}),
        max_price \in Supplied("max_price", {Num(4), Num(5)}),
        low_stock \in Supplied("low_stock", {Bool(TRUE), Bool(FALSE)}) }

\* Product p passes every filter the query supplies: the substring filters
\* whatever the case, the prices compared as the exact decimals they are.
Satisfies(p, query) ==
    /\ "name" \in DOMAIN query => in_str(lower(query.name.v), lower(p.name.v))
    /\ "sku" \in DOMAIN query => in_str(lower(query.sku.v), lower(p.sku.v))
    /\ "category_id" \in DOMAIN query => p.category_id = query.category_id
    /\ "is_active" \in DOMAIN query => p.is_active = query.is_active
    /\ "min_price" \in DOMAIN query => query.min_price.v <= p.price.v
    /\ "max_price" \in DOMAIN query => p.price.v <= query.max_price.v
    /\ ("low_stock" \in DOMAIN query /\ query.low_stock.v)
           => p.stock_quantity.v <= p.reorder_level.v

\* The stored products that pass, in the order of the store.
Matching(query) == SelectSeq(Values(products), LAMBDA p : Satisfies(p, query))

\* C11 (as claimed): GET /products answers with exactly the stored products
\* that satisfy all the filters supplied (name and sku substring, category_id
\* and is_active equal, min_price <= price <= max_price, low_stock selecting
\* stock_quantity <= reorder_level), in the order of the store, and changes
\* neither store.
C11_AsClaimed ==
    \A query \in AnyProductQueries :
        LET outcome == GET_products(query)
        IN  /\ outcome.resp.status = 200
            /\ outcome.resp.body = Matching(query)
            /\ StoresUnchanged(outcome)

(***************************************************************************)
(* C12.  The race between the check of a reference and the write.          *)
(***************************************************************************)
\* Some stored product references a category that is not in the store.
Dangling ==
    \E i \in 1 .. Len(products) :
        products[i].val.category_id.v \notin Keys(categories)

\* The worker whose statement this step is ran a handler that a statement of
\* another handler has overlapped.
OverlappedStep ==
    \E w \in Workers :
        /\ workers'[w].pc # workers[w].pc
        /\ workers[w].overlapped

\* C12: with no lock around the stores and two handlers interleaved statement
\* by statement, referential integrity is lost only by a statement of a handler
\* that another handler's statements have overlapped since it began: a
\* handler that runs from its first statement to its last with no statement
\* of another in between leaves no product referencing an absent category.
\* That such a loss does happen is C12_Witness.
C12_LatentRace == [][(~Dangling /\ Dangling') => OverlappedStep]_vars

\* create_product has answered 201 for a product whose category a concurrent
\* delete_category removed after create_product had checked it: the product
\* is stored and its category is not.
C12_Witness ==
    /\ Dangling
    /\ resp.op = "create_product" /\ resp.status = 201
    /\ \A w \in Workers : ~InFlight(w)

====
